---- MODULE Spec2Model ----
(***************************************************************************)
(* Model of src/src/conversion/annotations.py: the conversion of           *)
(* DeepScores pixel masks and XML object lists into COCO-style annotation  *)
(* records (generate_annotations) and the helpers it calls                 *)
(* (extract_area_inside_bbox, generate_binary_mask, binary_mask_to_rle).   *)
(*                                                                         *)
(* Numbers.  The XML gives box edges as fractions of the image size.  The  *)
(* model draws them from the grid n/Q, and stores every pixel coordinate   *)
(* in units of 1/Q pixel, so that fraction * size is the integer n * size. *)
(* With Q a power of two all these values are exact binary floats, so the  *)
(* float arithmetic of the source is exact on them.                        *)
(*                                                                         *)
(* The <size> of an XML file is taken to be the shape of the image's pixel  *)
(* array.                                                                  *)
(*                                                                         *)
(* Arrays.  A 2-D numpy array is [shape |-> <<rows, cols>>, px |-> p]      *)
(* with p[r][c] the element of row r, column c (1-based).                  *)
(***************************************************************************)
EXTENDS Integers, Sequences, FiniteSets, TLC

VARIABLES
    category_lookup,        \* dict: category name -> category id
    img_lookup,             \* dict: image name -> image id
    class_colors,           \* dict: category name -> gray value
    train_set,              \* set of image names of the training split
    file_list,              \* listdir(xml_annotations_dir), image names
    train_annotation_list,
    test_annotation_list,
    counter,                \* the next annotation id
    file_counter,
    pc,                     \* position in generate_annotations
    img_name,               \* image of the file being processed
    seg_array,              \* its segmentation array
    obj_bbox,               \* bbox: last box computed, [x, y, width, height]
    extracted_seg,          \* last crop of seg_array
    bin_mask,               \* last binary mask generated
    area,                   \* its area
    rle_segmentation,       \* its run-length encoding
    seen                    \* history: the objects iterated so far, in order

vars == <<category_lookup, img_lookup, class_colors, train_set, file_list,
          train_annotation_list, test_annotation_list, counter, file_counter,
          pc, img_name, seg_array, obj_bbox, extracted_seg, bin_mask, area,
          rle_segmentation, seen>>

----------------------------------------------------------------------------
(* Bounds and input samples *)

MaxH == 3       \* rows of the masks whose encoding is checked in isolation
MaxW == 3       \* columns of those masks
MaxObjs == 3    \* objects iterated in one run of generate_annotations

Q == 4          \* grid of the coordinates: 1/Q of a pixel, fractions n/Q
MaxOut == 2     \* how far, in 1/Q, a box edge of the crops checked in isolation
                \* lies outside [0, 1]

CategoryNames == {"brace", "note", "rest"}
ImageNames == {"a", "b"}

AllCategoryIds == [brace |-> 1, note |-> 2, rest |-> 3]
AllClassColors == [brace |-> 3, note |-> 1, rest |-> 2]
AllImageIds == [a |-> 10, b |-> 20]

Restrict(f, S) == [k \in S |-> f[k]]

Array(rows) ==
    [shape |-> <<Len(rows), IF rows = <<>> THEN 0 ELSE Len(rows[1])>>,
     px |-> rows]

\* The pixel annotation file of each image: gray value = class colour.
SegOf(name) ==
    IF name = "a"
    THEN Array(<< <<1, 2, 1>>,
                  <<0, 1, 3>> >>)
    ELSE Array(<< <<2, 2>>,
                  <<1, 0>>,
                  <<0, 2>> >>)

\* <bndbox> of an object: numerators of xmin, ymin, xmax, ymax over Q.
Boxes ==
    { [xmin |-> 0, ymin |-> 0, xmax |-> Q, ymax |-> Q],          \* whole image
      [xmin |-> 2, ymin |-> 0, xmax |-> Q - 1, ymax |-> 2],      \* inner part
      [xmin |-> Q, ymin |-> 0, xmax |-> Q, ymax |-> Q],          \* zero width
      [xmin |-> 0, ymin |-> Q, xmax |-> Q, ymax |-> Q],          \* zero height
      [xmin |-> Q - 1, ymin |-> 0, xmax |-> 1, ymax |-> Q],      \* xmax < xmin
      [xmin |-> 0, ymin |-> Q - 1, xmax |-> Q, ymax |-> 1] }     \* ymax < ymin

WholeImage == [xmin |-> 0, ymin |-> 0, xmax |-> Q, ymax |-> Q]
InnerPart == [xmin |-> 2, ymin |-> 0, xmax |-> Q - 1, ymax |-> 2]

\* <object> elements of the XML files: a brace, notes of every box, and rests.
Objects ==
    {[name |-> "brace", bndbox |-> WholeImage]}
        \cup [name : {"note"}, bndbox : Boxes]
        \cup [name : {"rest"}, bndbox : {WholeImage, InnerPart}]

----------------------------------------------------------------------------
(* numpy and itertools, as the source uses them *)

\* ravel(order='C'): along each row, rows top to bottom.
ravel_C(m) ==
    [k \in 1..(m.shape[1] * m.shape[2]) |->
        m.px[((k - 1) \div m.shape[2]) + 1][((k - 1) % m.shape[2]) + 1]]

\* binary_mask.ravel(order='F'): down each column, columns left to right.
ravel_F(m) ==
    [k \in 1..(m.shape[1] * m.shape[2]) |->
        m.px[((k - 1) % m.shape[1]) + 1][((k - 1) \div m.shape[1]) + 1]]

\* Length of the run of equal values that starts s.
RECURSIVE RunLen(_)
RunLen(s) ==
    IF Len(s) <= 1 THEN Len(s)
    ELSE IF s[2] = s[1] THEN 1 + RunLen(Tail(s))
    ELSE 1

\* itertools.groupby(s) with each group replaced by (value, len(list(group))).
RECURSIVE groupby(_)
groupby(s) ==
    IF s = <<>> THEN <<>>
    ELSE LET n == RunLen(s)
         IN  <<[value |-> s[1], len |-> n]>> \o groupby(SubSeq(s, n + 1, Len(s)))

\* The run lengths alone, and the counts without the last run.
NoLeadingZero(groups) == [i \in 1..Len(groups) |-> groups[i].len]

DropLastRun(groups) ==
    (IF groups # <<>> /\ groups[1].value = 1 THEN <<0>> ELSE <<>>)
        \o [i \in 1..(Len(groups) - 1) |-> groups[i].len]

\* The loop of binary_mask_to_rle over enumerate(groupby(...)): a 0 before a
\* first group of value 1, then the length of every group.
rle_counts(groups) ==
    (IF groups # <<>> /\ groups[1].value = 1 THEN <<0>> ELSE <<>>)
        \o [i \in 1..Len(groups) |-> groups[i].len]

binary_mask_to_rle(binary_mask) ==
    [counts |-> rle_counts(groupby(ravel_F(binary_mask))),
     size |-> binary_mask.shape]

\* floor and ceil of a coordinate held in units of 1/Q pixel.
floor(v) == v \div Q
ceil(v) == -((-v) \div Q)

\* round(v, 8): every value of the grid has at most 8 decimals.
round8(v) == v

\* slice(start, stop).indices(n): negative indices count from the end, then
\* both are clipped to 0..n.
SliceIndex(i, n) ==
    IF i < 0 THEN (IF i + n < 0 THEN 0 ELSE i + n)
    ELSE IF i > n THEN n ELSE i

\* a[r0:r1, c0:c1]
Slice2D(a, r0, r1, c0, c1) ==
    LET rlo == SliceIndex(r0, a.shape[1])
        rhi == SliceIndex(r1, a.shape[1])
        clo == SliceIndex(c0, a.shape[2])
        chi == SliceIndex(c1, a.shape[2])
        h == IF rhi > rlo THEN rhi - rlo ELSE 0
        w == IF chi > clo THEN chi - clo ELSE 0
    IN  [shape |-> <<h, w>>,
         px |-> [r \in 1..h |-> [c \in 1..w |-> a.px[rlo + r][clo + c]]]]

extract_area_inside_bbox(bbox, segmentation_mask) ==
    LET xmin == floor(bbox[1])
        ymin == floor(bbox[2])
        xmax == ceil(bbox[1] + bbox[3])
        ymax == ceil(bbox[2] + bbox[4])
    IN  Slice2D(segmentation_mask, ymin, ymax, xmin, xmax)

\* np.count_nonzero
count_nonzero(a) ==
    Cardinality({rc \in (1..a.shape[1]) \X (1..a.shape[2]) : a.px[rc[1]][rc[2]] # 0})

\* seg_mask == category_code, as uint8
EqualTo(seg_mask, category_code) ==
    [shape |-> seg_mask.shape,
     px |-> [r \in 1..seg_mask.shape[1] |-> [c \in 1..seg_mask.shape[2] |->
                IF seg_mask.px[r][c] = category_code THEN 1 ELSE 0]]]

AreaOfWholeCrop(seg_mask, category_code) ==
    <<EqualTo(seg_mask, category_code), count_nonzero(seg_mask)>>

generate_binary_mask(seg_mask, category_code) ==
    LET mask == EqualTo(seg_mask, category_code)
    IN  <<mask, count_nonzero(mask)>>

----------------------------------------------------------------------------
(* generate_annotations *)

\* d.get(k, 0)
dict_get_default(d, k) == IF k \in DOMAIN d THEN <<d[k]>> ELSE <<0>>

\* d[k]: <<value>>, or <<>> when the access raises KeyError.
getitem(d, k) == IF k \in DOMAIN d THEN <<d[k]>> ELSE <<>>

\* if name != "brace":
IsProcessedAlways(name) == TRUE

IsProcessed(name) == name # "brace"

\* if img_name in train_set:
InTrainNever(name, set) == FALSE

InTrain(name, set) == name \in set

\* The counter after an object that was appended to a list (counter += 1),
\* and after one that was skipped (no statement).
CounterAfterAppendTrainOnly(c, in_train) == IF in_train THEN c + 1 ELSE c

CounterAfterAppend(c, in_train) == c + 1

CounterAfterSkipCounts(c) == c + 1

CounterAfterSkip(c) == c

Annotation(rle, ar, image_id, bbox, category_id, id) ==
    [segmentation |-> rle,
     area |-> ar,
     iscrowd |-> 0,
     image_id |-> image_id,
     bbox |-> bbox,
     category_id |-> category_id,
     id |-> id]

\* The lookups given to a run: complete, or with names missing from one of them.
Lookups ==
    { [category |-> Restrict(AllCategoryIds, c), color |-> Restrict(AllClassColors, k),
       image |-> Restrict(AllImageIds, i)] :
        <<c, k, i>> \in { <<CategoryNames, CategoryNames, ImageNames>>,
                          <<{"note"}, CategoryNames, ImageNames>>,
                          <<{"note", "rest"}, {"note"}, ImageNames>>,
                          <<CategoryNames, CategoryNames, {"a"}>> } }
TrainSets == {{"a"}, {}}
FileLists == {<<>>, <<"a">>, <<"a", "b">>, <<"b", "a">>}

EmptyArray == Array(<<>>)
EmptyRle == [counts |-> <<>>, size |-> <<0, 0>>]

Locals0 ==
    /\ img_name = ""
    /\ seg_array = EmptyArray
    /\ obj_bbox = <<0, 0, 0, 0>>
    /\ extracted_seg = EmptyArray
    /\ bin_mask = EmptyArray
    /\ area = 0
    /\ rle_segmentation = EmptyRle

Init ==
    /\ \E l \in Lookups :
          /\ category_lookup = l.category
          /\ img_lookup = l.image
          /\ class_colors = l.color
    /\ train_set \in TrainSets
    /\ file_list \in FileLists
    /\ train_annotation_list = <<>>
    /\ test_annotation_list = <<>>
    /\ counter = 1
    /\ file_counter = 1
    /\ pc = "for_file"
    /\ Locals0
    /\ seen = <<>>

inputs == <<category_lookup, img_lookup, class_colors, train_set, file_list>>
lists == <<train_annotation_list, test_annotation_list>>
mask_locals == <<bin_mask, area, rle_segmentation>>
crop_locals == <<obj_bbox, extracted_seg>>

\* for file_name in file_list: open the next file.
NextFile ==
    /\ pc = "for_file"
    /\ file_counter <= Len(file_list)
    /\ img_name' = file_list[file_counter]
    /\ seg_array' = SegOf(file_list[file_counter])
    /\ pc' = "for_obj"
    /\ UNCHANGED <<inputs, lists, counter, file_counter, crop_locals, mask_locals,
                   seen>>

Seen(obj, outcome, id) ==
    [img |-> img_name, name |-> obj.name, outcome |-> outcome, id |-> id]

Raise(obj) ==
    /\ pc' = "KeyError"
    /\ seen' = Append(seen, Seen(obj, "KeyError", 0))
    /\ UNCHANGED <<lists, counter>>

\* for obj in root.iter('object'): the body of the loop for one object.
ProcessObject(obj) ==
    /\ pc = "for_obj"
    /\ Len(seen) < MaxObjs
    /\ LET name == obj.name
           w == seg_array.shape[2]
           h == seg_array.shape[1]
           xmin == obj.bndbox.xmin * w
           ymin == obj.bndbox.ymin * h
           width == (obj.bndbox.xmax * w) - xmin
           height == (obj.bndbox.ymax * h) - ymin
           new_bbox == <<xmin, ymin, round8(width), round8(height)>>
           category_id == getitem(category_lookup, name)
           new_seg == extract_area_inside_bbox(new_bbox, seg_array)
           class_color == getitem(class_colors, name)
           gen == generate_binary_mask(new_seg, class_color[1])
           rle == binary_mask_to_rle(gen[1])
           image_id == getitem(img_lookup, img_name)
           in_train == InTrain(img_name, train_set)
           record == Annotation(rle, gen[2], image_id[1], new_bbox,
                                category_id[1], counter)
       IN  IF ~IsProcessed(name)
           THEN /\ seen' = Append(seen, Seen(obj, "skipped", 0))
                /\ counter' = CounterAfterSkip(counter)
                /\ UNCHANGED <<lists, pc, crop_locals, mask_locals>>
           ELSE IF category_id = <<>>
           THEN /\ obj_bbox' = new_bbox
                /\ Raise(obj)
                /\ UNCHANGED <<extracted_seg, mask_locals>>
           ELSE IF class_color = <<>>
           THEN /\ obj_bbox' = new_bbox
                /\ extracted_seg' = new_seg
                /\ Raise(obj)
                /\ UNCHANGED mask_locals
           ELSE /\ obj_bbox' = new_bbox
                /\ extracted_seg' = new_seg
                /\ bin_mask' = gen[1]
                /\ area' = gen[2]
                /\ rle_segmentation' = rle
                /\ IF image_id = <<>>
                   THEN Raise(obj)
                   ELSE /\ IF in_train
                           THEN /\ train_annotation_list' =
                                       Append(train_annotation_list, record)
                                /\ UNCHANGED test_annotation_list
                           ELSE /\ test_annotation_list' =
                                       Append(test_annotation_list, record)
                                /\ UNCHANGED train_annotation_list
                        /\ seen' = Append(seen, Seen(obj,
                                      IF in_train THEN "train" ELSE "test", counter))
                        /\ counter' = CounterAfterAppend(counter, in_train)
                        /\ UNCHANGED pc
    /\ UNCHANGED <<inputs, file_counter, img_name, seg_array>>

\* The objects of the file are exhausted: file_counter += 1.
EndFile ==
    /\ pc = "for_obj"
    /\ file_counter' = file_counter + 1
    /\ pc' = "for_file"
    /\ UNCHANGED <<inputs, lists, counter, img_name, seg_array, crop_locals,
                   mask_locals, seen>>

\* The files are exhausted: return train_annotation_list, test_annotation_list.
Return ==
    /\ pc = "for_file"
    /\ file_counter > Len(file_list)
    /\ pc' = "return"
    /\ UNCHANGED <<inputs, lists, counter, file_counter, img_name, seg_array,
                   crop_locals, mask_locals, seen>>

Next ==
    \/ NextFile
    \/ \E obj \in Objects : ProcessObject(obj)
    \/ EndFile
    \/ Return

Spec == Init /\ [][Next]_vars

----------------------------------------------------------------------------
(* binary_mask_to_rle in isolation: every binary mask of up to MaxH rows   *)
(* and MaxW columns, and the 4 x 4 patterns.                               *)

Masks(h, w) == {[shape |-> <<h, w>>, px |-> p] : p \in [1..h -> [1..w -> {0, 1}]]}

Uniform(h, w, v) == [shape |-> <<h, w>>, px |-> [r \in 1..h |-> [c \in 1..w |-> v]]]

Checkerboard(h, w) ==
    [shape |-> <<h, w>>, px |-> [r \in 1..h |-> [c \in 1..w |-> (r + c) % 2]]]

SinglePixel(h, w, r0, c0) ==
    [shape |-> <<h, w>>,
     px |-> [r \in 1..h |-> [c \in 1..w |-> IF r = r0 /\ c = c0 THEN 1 ELSE 0]]]

PatternMasks ==
    {Uniform(4, 4, 0), Uniform(4, 4, 1), Checkerboard(4, 4),
     SinglePixel(4, 4, 1, 1), SinglePixel(4, 4, 2, 3)}

InitRle ==
    /\ category_lookup = Restrict(AllCategoryIds, {})
    /\ img_lookup = Restrict(AllImageIds, {})
    /\ class_colors = Restrict(AllClassColors, {})
    /\ train_set = {}
    /\ file_list = <<>>
    /\ train_annotation_list = <<>>
    /\ test_annotation_list = <<>>
    /\ counter = 1
    /\ file_counter = 1
    /\ pc = "rle_in"
    /\ img_name = ""
    /\ seg_array = EmptyArray
    /\ obj_bbox = <<0, 0, 0, 0>>
    /\ extracted_seg = EmptyArray
    /\ \/ \E h \in 0..MaxH, w \in 0..MaxW : bin_mask \in Masks(h, w)
       \/ bin_mask \in PatternMasks
    /\ area = 0
    /\ rle_segmentation = EmptyRle
    /\ seen = <<>>

\* rle_segmentation = binary_mask_to_rle(bin_mask)
EncodeMask ==
    /\ pc = "rle_in"
    /\ rle_segmentation' = binary_mask_to_rle(bin_mask)
    /\ pc' = "rle_out"
    /\ UNCHANGED <<inputs, lists, counter, file_counter, img_name, seg_array,
                   crop_locals, bin_mask, area, seen>>

NextRle == EncodeMask

SpecRle == InitRle /\ [][NextRle]_vars

----------------------------------------------------------------------------
(* extract_area_inside_bbox in isolation: the boxes of both images whose   *)
(* edges are fractions n/Q from -MaxOut/Q to 1 + MaxOut/Q.                 *)

\* bbox = [xmin, ymin, round(width, 8), round(height, 8)] of a <bndbox>, for an
\* image of width w and height h.
BoxOf(bndbox, w, h) ==
    <<bndbox.xmin * w,
      bndbox.ymin * h,
      round8((bndbox.xmax * w) - (bndbox.xmin * w)),
      round8((bndbox.ymax * h) - (bndbox.ymin * h))>>

Fractions == (0 - MaxOut)..(Q + MaxOut)

InitCrop ==
    /\ category_lookup = Restrict(AllCategoryIds, {})
    /\ img_lookup = Restrict(AllImageIds, {})
    /\ class_colors = Restrict(AllClassColors, {})
    /\ train_set = {}
    /\ file_list = <<>>
    /\ train_annotation_list = <<>>
    /\ test_annotation_list = <<>>
    /\ counter = 1
    /\ file_counter = 1
    /\ pc = "crop_in"
    /\ img_name \in ImageNames
    /\ seg_array = SegOf(img_name)
    /\ \E b \in [xmin : Fractions, ymin : Fractions, xmax : Fractions, ymax : Fractions] :
          obj_bbox = BoxOf(b, seg_array.shape[2], seg_array.shape[1])
    /\ extracted_seg = EmptyArray
    /\ bin_mask = EmptyArray
    /\ area = 0
    /\ rle_segmentation = EmptyRle
    /\ seen = <<>>

\* extracted_seg = extract_area_inside_bbox(bbox, seg_array)
ExtractCrop ==
    /\ pc = "crop_in"
    /\ extracted_seg' = extract_area_inside_bbox(obj_bbox, seg_array)
    /\ pc' = "crop_out"
    /\ UNCHANGED <<inputs, lists, counter, file_counter, img_name, seg_array,
                   obj_bbox, mask_locals, seen>>

NextCrop == ExtractCrop

SpecCrop == InitCrop /\ [][NextCrop]_vars

----------------------------------------------------------------------------
(* Reference definitions used by the properties *)

Clamp(v, lo, hi) == IF v < lo THEN lo ELSE IF v > hi THEN hi ELSE v

\* Rows y0+1..y1 and columns x0+1..x1 (1-based) of array a, the bounds
\* already inside the array.
Window(a, y0, y1, x0, x1) ==
    LET h == IF y1 > y0 THEN y1 - y0 ELSE 0
        w == IF x1 > x0 THEN x1 - x0 ELSE 0
    IN  [shape |-> <<h, w>>,
         px |-> [r \in 1..h |-> [c \in 1..w |-> a.px[y0 + r][x0 + c]]]]

\* The crop of a for box b with the integer bounds clamped to the image.
ClampedCrop(b, a) ==
    Window(a,
           Clamp(floor(b[2]), 0, a.shape[1]), Clamp(ceil(b[2] + b[4]), 0, a.shape[1]),
           Clamp(floor(b[1]), 0, a.shape[2]), Clamp(ceil(b[1] + b[3]), 0, a.shape[2]))

RECURSIVE Sum(_)
Sum(s) == IF s = <<>> THEN 0 ELSE s[1] + Sum(Tail(s))

\* The pixels that counts describe: runs of 0 and 1 in turn, the first of 0.
RECURSIVE Replay(_, _)
Replay(counts, value) ==
    IF counts = <<>> THEN <<>>
    ELSE [k \in 1..counts[1] |-> value] \o Replay(Tail(counts), 1 - value)

\* The array of shape size filled with flat down each column, columns left to
\* right; <<>> when flat has not size[1] * size[2] elements.
FillColumns(flat, size) ==
    IF Len(flat) # size[1] * size[2] THEN <<>>
    ELSE [shape |-> size,
          px |-> [r \in 1..size[1] |-> [c \in 1..size[2] |->
                     flat[(c - 1) * size[1] + r]]]]

Decode(rle) == FillColumns(Replay(rle.counts, 0), rle.size)

NumPixels(m) == m.shape[1] * m.shape[2]

\* The k-th pixel of m in column-major order, k in 1..NumPixels(m).
PixelAt(m, k) == m.px[((k - 1) % m.shape[1]) + 1][((k - 1) \div m.shape[1]) + 1]

\* Number of pixels equal to 1.
TruePixels(m) ==
    Cardinality({k \in 1..NumPixels(m) : PixelAt(m, k) = 1})

\* Sum of the counts at the even positions (1-based): the foreground runs.
ForegroundSum(counts) ==
    Sum([i \in 1..(Len(counts) \div 2) |-> counts[2 * i]])

\* counts[i] is a maximal run of value v of mask m that starts after the
\* pixels counted by counts[1..i-1].
IsMaximalRun(m, counts, i, v) ==
    LET start == Sum(SubSeq(counts, 1, i - 1))
        stop == start + counts[i]
    IN  /\ stop <= NumPixels(m)
        /\ \A k \in (start + 1)..stop : PixelAt(m, k) = v
        /\ start > 0 => PixelAt(m, start) # v
        /\ stop < NumPixels(m) => PixelAt(m, stop + 1) # v

AllRecords ==
    {train_annotation_list[i] : i \in 1..Len(train_annotation_list)}
        \cup {test_annotation_list[i] : i \in 1..Len(test_annotation_list)}

Last(s) == s[Len(s)]

IsPrefix(s, t) == Len(s) <= Len(t) /\ SubSeq(t, 1, Len(s)) = s

\* The objects, by position in seen, that led to a record.
Appended == {k \in 1..Len(seen) : seen[k].outcome \in {"train", "test"}}

ListOf(outcome) ==
    IF outcome = "train" THEN train_annotation_list ELSE test_annotation_list

\* Every appended object has its record: the lists are as long as the history says.
ListsMatchHistory ==
    \A o \in {"train", "test"} :
        Len(ListOf(o)) = Cardinality({k \in Appended : seen[k].outcome = o})

\* The record generated for object k of Appended: objects are appended to
\* their list in the order they are iterated.
RecordOf(k) ==
    ListOf(seen[k].outcome)[Cardinality({j \in 1..k : seen[j].outcome = seen[k].outcome})]

\* Number of objects other than braces among the first k iterated.
NonBraceUpTo(k) == Cardinality({j \in 1..k : seen[j].name # "brace"})

\* Object k names a category or an image that a lookup lacks.
MissingKey(k) ==
    /\ seen[k].name # "brace"
    /\ \/ seen[k].name \notin DOMAIN category_lookup
       \/ seen[k].name \notin DOMAIN class_colors
       \/ seen[k].img \notin DOMAIN img_lookup

Values(f) == {f[k] : k \in DOMAIN f}

----------------------------------------------------------------------------
(* Properties *)

\* C1: decoding the encoding of any binary mask, by replaying counts as
\* background and foreground runs in turn, background first, filled down each
\* column and columns left to right into an array of shape size, gives back
\* the mask.
C1_RoundTrip ==
    pc = "rle_out" => Decode(rle_segmentation) = bin_mask

\* A mask that is not symmetric and not square has been encoded and decoded.
C1_Witness ==
    /\ pc = "rle_out"
    /\ bin_mask = [shape |-> <<2, 3>>, px |-> << <<0, 1, 1>>, <<1, 0, 0>> >>]
    /\ rle_segmentation.counts = <<1, 2, 1, 1, 1>>
    /\ Decode(rle_segmentation) = bin_mask

\* C2: the counts are runs of background and foreground in turn, background
\* first: counts[0] is the length of the initial background run, 0 exactly
\* when the first pixel in column-major order is foreground; every later
\* count is the length, at least 1, of a maximal run of equal values.  A 4x4
\* all-background mask gives [16]; a 2x2 mask with only the first pixel
\* foreground gives [0,1,3].
C2_Alternation ==
    pc = "rle_out" =>
        LET counts == rle_segmentation.counts
        IN  /\ NumPixels(bin_mask) > 0 =>
                /\ Len(counts) >= 1
                /\ counts[1] >= 0
                /\ \A k \in 1..counts[1] : PixelAt(bin_mask, k) = 0
                /\ counts[1] < NumPixels(bin_mask) =>
                        PixelAt(bin_mask, counts[1] + 1) = 1
                /\ counts[1] = 0 <=> PixelAt(bin_mask, 1) = 1
            /\ \A i \in 2..Len(counts) :
                /\ counts[i] >= 1
                /\ IsMaximalRun(bin_mask, counts, i, (i + 1) % 2)
            /\ bin_mask = Uniform(4, 4, 0) => counts = <<16>>
            /\ bin_mask = SinglePixel(2, 2, 1, 1) => counts = <<0, 1, 3>>

\* The 2x2 mask whose first pixel alone is foreground has been encoded.
C2_Witness ==
    /\ pc = "rle_out"
    /\ bin_mask = SinglePixel(2, 2, 1, 1)
    /\ rle_segmentation = [counts |-> <<0, 1, 3>>, size |-> <<2, 2>>]

\* C3: in every encoding produced, and so in the segmentation of every
\* record of the two lists, the counts add up to height * width of size, also
\* for a crop of no rows or of no columns.
C3_CountsSum ==
    /\ Sum(rle_segmentation.counts)
          = rle_segmentation.size[1] * rle_segmentation.size[2]
    /\ rle_segmentation.size = bin_mask.shape
    /\ \A r \in AllRecords :
          Sum(r.segmentation.counts) = r.segmentation.size[1] * r.segmentation.size[2]

\* The lists hold a record of a crop of no columns, one of a crop of no rows
\* and one of a crop that has pixels.
C3_Witness ==
    /\ \E r \in AllRecords : r.segmentation.size[2] = 0 /\ r.segmentation.size[1] > 0
    /\ \E r \in AllRecords : r.segmentation.size[1] = 0 /\ r.segmentation.size[2] > 0
    /\ \E r \in AllRecords : Len(r.segmentation.counts) >= 3

\* C4: the area of a record is the number of true pixels of the binary mask
\* encoded into its segmentation, the mask being true exactly at the pixels of
\* the bbox crop whose value is the reserved intensity of the object's
\* category; and the area is the sum of the foreground counts.
C4_Area ==
    /\ \A r \in AllRecords : r.area = ForegroundSum(r.segmentation.counts)
    /\ (pc = "for_obj" /\ seen # <<>> /\ Last(seen).outcome \in {"train", "test"}
            /\ Last(seen).img = img_name) =>
         LET r == Last(ListOf(Last(seen).outcome))
             crop == extract_area_inside_bbox(r.bbox, seg_array)
             intensity == class_colors[Last(seen).name]
         IN  /\ Decode(r.segmentation) = bin_mask
             /\ bin_mask.shape = crop.shape
             /\ \A k \in 1..NumPixels(crop) :
                    PixelAt(bin_mask, k) = 1 <=> PixelAt(crop, k) = intensity
             /\ r.area = TruePixels(bin_mask)

\* A record was made of a crop that holds pixels of its own category and
\* pixels of other categories.
C4_Witness ==
    /\ pc = "for_obj" /\ seen # <<>> /\ Last(seen).outcome \in {"train", "test"}
    /\ Last(seen).img = img_name
    /\ LET r == Last(ListOf(Last(seen).outcome))
           crop == extract_area_inside_bbox(r.bbox, seg_array)
       IN  /\ r.area = 3
           /\ count_nonzero(crop) = 5
           /\ r.segmentation.counts = <<0, 1, 2, 2, 1>>

\* C5: at every point of a run the ids of the records of the two lists are
\* pairwise distinct and strictly increasing in the order of generation, so
\* strictly increasing within each list.
C5_IdsIncreasing ==
    /\ ListsMatchHistory
    /\ \A j, k \in Appended : j < k => RecordOf(j).id < RecordOf(k).id
    /\ Cardinality({r.id : r \in AllRecords})
          = Len(train_annotation_list) + Len(test_annotation_list)
    /\ \A o \in {"train", "test"} : \A i \in 1..(Len(ListOf(o)) - 1) :
          ListOf(o)[i].id < ListOf(o)[i + 1].id

\* Two records were generated for the validation list and then one for the
\* train list: the order of generation is not the order train, validation.
C5_Witness ==
    /\ Len(train_annotation_list) = 1
    /\ Len(test_annotation_list) = 2
    /\ test_annotation_list[1].id < test_annotation_list[2].id
    /\ test_annotation_list[2].id < train_annotation_list[1].id

\* C6: ids come from one counter that starts at 1, in file-then-object
\* order: the k-th object that is not a brace gets id k, without gaps, and a
\* skipped brace takes no id.  Two images, one of them in the train set, each
\* with one object that is not a brace, give one train record and one
\* validation record with ids 1 and 2.
C6_IdIsOrdinal ==
    /\ ListsMatchHistory
    /\ \A k \in Appended : RecordOf(k).id = NonBraceUpTo(k) /\ seen[k].id = RecordOf(k).id
    /\ (/\ pc = "return"
        /\ Len(file_list) = 2
        /\ Cardinality({i \in 1..2 : file_list[i] \in train_set}) = 1
        /\ \A i \in 1..2 :
              Cardinality({k \in 1..Len(seen) :
                  seen[k].img = file_list[i] /\ seen[k].name # "brace"}) = 1)
         => /\ Len(train_annotation_list) = 1
            /\ Len(test_annotation_list) = 1
            /\ {train_annotation_list[1].id, test_annotation_list[1].id} = {1, 2}
            /\ ListOf(IF file_list[1] \in train_set THEN "train" ELSE "test")[1].id = 1

\* The run returned after a brace and one other object in the first image,
\* which is not in the train set, and one object in the second, which is.
C6_Witness ==
    /\ pc = "return"
    /\ file_list = <<"b", "a">>
    /\ train_set = {"a"}
    /\ Len(seen) = 3
    /\ seen[1].name = "brace" /\ seen[1].img = "b"
    /\ seen[2].img = "b" /\ seen[2].outcome = "test"
    /\ seen[3].img = "a" /\ seen[3].outcome = "train"
    /\ test_annotation_list[1].id = 1
    /\ train_annotation_list[1].id = 2

\* C7: every object that is not a brace and is processed gives exactly one
\* record, appended once to one list: the train list if and only if its
\* image is in the train set, else the validation list; no step modifies,
\* removes or reorders the records already appended.
C7_AppendOnce ==
    [][/\ IsPrefix(train_annotation_list, train_annotation_list')
       /\ IsPrefix(test_annotation_list, test_annotation_list')
       /\ IF /\ Len(seen') = Len(seen) + 1
             /\ Last(seen').name # "brace"
             /\ pc' # "KeyError"
          THEN IF img_name \in train_set
               THEN /\ Len(train_annotation_list') = Len(train_annotation_list) + 1
                    /\ Last(train_annotation_list').id = counter
                    /\ test_annotation_list' = test_annotation_list
               ELSE /\ Len(test_annotation_list') = Len(test_annotation_list) + 1
                    /\ Last(test_annotation_list').id = counter
                    /\ train_annotation_list' = train_annotation_list
          ELSE lists' = lists
      ]_vars

\* Both lists received records, the train list two of them.
C7_Witness ==
    /\ pc = "return"
    /\ Len(train_annotation_list) = 2
    /\ Len(test_annotation_list) = 1
    /\ \A k \in 1..Len(seen) : seen[k].outcome = "train" <=> seen[k].img \in train_set

\* C8: no record of either list comes from an object named "brace": braces
\* are skipped without a record, in either split, whether or not the lookups
\* know "brace".
C8_NoBrace ==
    /\ ListsMatchHistory
    /\ \A k \in 1..Len(seen) : seen[k].name = "brace" => seen[k].outcome = "skipped"
    /\ \A r \in AllRecords : r.category_id # AllCategoryIds["brace"]

\* Braces of a train image and of a validation image were skipped although
\* the lookups know "brace", and another object gave a record.
C8_Witness ==
    /\ pc = "return"
    /\ "brace" \in DOMAIN category_lookup /\ "brace" \in DOMAIN class_colors
    /\ \E j, k \in 1..Len(seen) :
          /\ seen[j].name = "brace" /\ seen[j].img \in train_set
          /\ seen[k].name = "brace" /\ seen[k].img \notin train_set
    /\ Len(train_annotation_list) + Len(test_annotation_list) = 1

\* C9: an object, not a brace, whose category is missing from
\* category_lookup or class_colors, or whose image is missing from
\* img_lookup, makes the run fail with a KeyError (a LookupError) that ends
\* it: the object is not dropped with the run going on, and no record of it,
\* complete or partial, is in either list.
C9_LookupAborts ==
    /\ ListsMatchHistory
    /\ \A k \in 1..Len(seen) :
          MissingKey(k) =>
              /\ seen[k].outcome = "KeyError"
              /\ k = Len(seen)
              /\ pc = "KeyError"
    /\ pc = "KeyError" => ~ENABLED Next
    /\ \A r \in AllRecords :
          /\ r.category_id \in Values(category_lookup)
          /\ r.image_id \in Values(img_lookup)

\* After a record of the first image, an object of an image that img_lookup
\* lacks ended the run, its mask already encoded.
C9_Witness ==
    /\ pc = "KeyError"
    /\ Len(seen) = 2
    /\ seen[1].outcome = "train"
    /\ seen[2].outcome = "KeyError"
    /\ seen[2].img \notin DOMAIN img_lookup
    /\ seen[2].name \in DOMAIN category_lookup \cap DOMAIN class_colors
    /\ Len(rle_segmentation.counts) >= 2
    /\ Len(train_annotation_list) = 1 /\ test_annotation_list = <<>>

\* C10: the bounding-box step validates w >= 0 and h >= 0, so no record of
\* either list has a box of negative width or height.
C10_BoxValidated ==
    \A r \in AllRecords : r.bbox[3] >= 0 /\ r.bbox[4] >= 0

\* C11: the integer crop bounds x0 = floor(x), y0 = floor(y),
\* x1 = ceil(x + w), y1 = ceil(y + h) are clamped to [0, width] x [0, height]
\* before cropping: for any box, also one with a negative coordinate or one
\* that reaches past an edge, the crop is the part of rows y0..y1 and columns
\* x0..x1 inside the image, and a negative bound is never taken as an index
\* counted from the far edge.
C11_CropClamped ==
    pc = "crop_out" => extracted_seg = ClampedCrop(obj_bbox, seg_array)

====
